---- MODULE Spec2Model ----
(***************************************************************************)
(* Model of the Vector class of Alchez/Linear_Algebra                      *)
(* (src/Vectors/Vectors_Full.py, Python 2).                                *)
(*                                                                         *)
(* Numbers.  A coordinate is a decimal.Decimal, and the module sets the     *)
(* context to 30 significant digits.  The model is the same arithmetic in  *)
(* a smaller decimal context: Prec significant digits, and no digit below  *)
(* the sixth fractional one (the context's Etiny).  A decimal d is written *)
(* as the integer d * One.  Every operation of the context (+, -, unary -, *)
(* *, /, ** 2) rounds its exact result half-even to the digits of the      *)
(* context; Decimal(x) of a float is exact and is not rounded; math.sqrt   *)
(* returns the nearest representable value, and round(x, 3) rounds half    *)
(* away from zero as Python 2 does.  The operands are built from the       *)
(* values of Coords (the decimals -1, 0 and 0.01, given as ints or decimal *)
(* strings, for which Decimal(x) is exact).  On these operands every test  *)
(* the code makes (magnitude zero or not, the rounded dot product, an      *)
(* angle equal to 0 or pi) has the outcome it has in Python under 30       *)
(* digits; results that are not exact decimals (unit vectors, projections, *)
(* the cosine of other angles) agree to the kept digits only.              *)
(*                                                                         *)
(* Outcomes.  A call either returns a value or raises; an outcome is a     *)
(* record [kind, type, msg, val].                                          *)
(*                                                                         *)
(* Spec is one call: Init constructs the operands, an action makes the     *)
(* call and records its outcome.  SpecSeq is a sequence of calls: after a  *)
(* call the caller makes the next one on the objects it holds, the         *)
(* returned ones included.  SpecCross is one call of cross_product taken    *)
(* statement by statement, with the frames of its calls on a stack.        *)
(***************************************************************************)
EXTENDS Integers, Sequences, FiniteSets, TLC

\* a, b   the two Vector objects the call is made on (self and v / basis)
\* arg    the scalar c of scale, in_degrees of get_degree as 0 / 1, or the
\*        tolerance of is_orthogonal and is_zero
\* op     the method called, ret its outcome
\* calls  the calls the method started (projections, or cross_product by
\*        itself), in order
\* pc     "ready" before the call, "running" in it, "done" after it
\* heap   the Vector objects the caller holds, by address 1..Len(heap)
\* at     the addresses of self and of v: the call is made on heap[at[1]] and
\*        heap[at[2]], and a and b are these operands as the call found them
\* stack  the frames of the calls of cross_product that have not returned,
\*        the newest last
VARIABLES a, b, arg, op, ret, calls, pc, heap, at, stack

vars == <<a, b, arg, op, ret, calls, pc, heap, at, stack>>

\* ---------------------------------------------------------------- bounds
\* vectors of dimension 1..MaxDim take every combination of Coords; vectors of
\* dimension MaxDim+1..MaxLongDim repeat one value of Coords
MaxDim == 3

MaxLongDim == 5

\* a sequence of calls goes on while the caller holds fewer objects than this
MaxObjects == 4

\* cross_product calls itself while fewer frames than this are on the stack
MaxDepth == 4

\* the integer that stands for Decimal('1.0'), and its square root
Half == 10 ^ 3

One == Half * Half

\* the significant digits of the model's decimal context (the module sets
\* the context of the program to 30), and the least integer that has more
\* digits than that
Prec == 5

Digits == 10 ^ Prec

Coords == {0 - One, 0, One \div 100}

Scalars == {0 - One, 0, 2 * One}

\* ------------------------------------------------------- message constants
CANNOT_NORMALIZE_ZERO_VECTOR_MSG == "Cannot normalize the zero vector"

NO_UNIQUE_PARALLEL_COMPONENT_MSG == "No unique parallel component exists!"

NO_UNIQUE_ORTHOGONAL_COMPONENT_MSG == "No unique orthogonal component exists!"

ONLY_DEFINED_IN_TWO_THREE_DIMS_MSG == "Cross-product only applicable to 2D or 3D vectors"

ANGLE_WITH_ZERO_VECTOR_MSG == "Cannot compute an angle with a zero vector"

NON_EMPTY_MSG == "The coordinates must be non-empty"

\* ---------------------------------------------------------------- outcomes
Return(v) == [kind |-> "return", type |-> "", msg |-> "", val |-> v]

Raise(t, m) == [kind |-> "raise", type |-> t, msg |-> m, val |-> "none"]

IsRaise(o) == o.kind = "raise"

\* `except Exception as e: if str(e) == m: raise Exception(n) else: raise e`
Relabel(o, m, n) ==
    IF IsRaise(o) /\ o.msg = m THEN Raise("Exception", n) ELSE o

\* ------------------------------------------------------ decimal arithmetic
\* A value computed once and used several times is passed as a parameter of
\* a helper operator (the `..._of`, `..._try`, `..._except` operators below).
Abs(x) == IF x < 0 THEN 0 - x ELSE x

Sign(x) == IF x < 0 THEN 0 - 1 ELSE 1

\* the nearest integer to q + r / d where 0 <= r < d, ties to even
RoundHalfEven(q, r, d) ==
    IF 2 * r < d THEN q
    ELSE IF 2 * r > d THEN q + 1
    ELSE IF q % 2 = 0 THEN q ELSE q + 1

\* hi * One + mid * Half + lo as q * One + r with 0 <= r < One
Carry(hi, mid, lo) ==
    [q |-> hi + mid \div Half + ((mid % Half) * Half + lo) \div One,
     r |-> ((mid % Half) * Half + lo) % One]

\* x * y = q * One + r for x, y >= 0, computed on the halves of x and y so
\* that no intermediate product leaves the integer range
WideMul(x, y) ==
    Carry((x \div Half) * (y \div Half),
          (x \div Half) * (y % Half) + (x % Half) * (y \div Half),
          (x % Half) * (y % Half))

RECURSIVE Quantum(_, _)
\* the place of the last digit the context keeps of q: the power of ten s with
\* q \div s < Digits, at least 1 (below Digits the smallest unit is kept)
Quantum(q, s) == IF q \div s < Digits THEN s ELSE Quantum(q, 10 * s)

\* the multiple of s nearest to q + r / d where 0 <= r < d, ties to even
RoundAt(q, r, d, s) ==
    IF s = 1 THEN RoundHalfEven(q, r, d)
    ELSE IF q % s < s \div 2 THEN s * (q \div s)
    ELSE IF q % s > s \div 2 \/ r > 0 THEN s * (q \div s + 1)
    ELSE IF (q \div s) % 2 = 0 THEN s * (q \div s) ELSE s * (q \div s + 1)

\* the quotient p.q with remainder p.r of a division by d, rounded to the
\* digits of the context
Rounded(p, d) == RoundAt(p.q, p.r, d, Quantum(p.q, 1))

\* the rounding the context applies to the exact result x of an operation
Ctx(x) == Sign(x) * RoundAt(Abs(x), 0, 1, Quantum(Abs(x), 1))

\* Decimal + Decimal
DecAdd(x, y) == Ctx(x + y)

\* Decimal - Decimal
DecSub(x, y) == Ctx(x - y)

\* - Decimal
DecNeg(x) == Ctx(0 - x)

\* Decimal * Decimal
Mul(x, y) == Sign(x) * Sign(y) * Rounded(WideMul(Abs(x), Abs(y)), One)

RECURSIVE LongDiv(_, _, _, _)
\* long division by y: the quotient q with remainder r, carried on by one
\* decimal digit for each factor 10 of s
LongDiv(q, r, y, s) ==
    IF s = 1 THEN [q |-> q, r |-> r]
    ELSE LongDiv(q * 10 + (r * 10) \div y, (r * 10) % y, y, s \div 10)

\* Decimal / Decimal, y # 0
Div(x, y) ==
    Sign(x) * Sign(y)
        * Rounded(LongDiv(Abs(x) \div Abs(y), Abs(x) % Abs(y), Abs(y), One), Abs(y))

\* p.q * One + p.r <= n * One
AtMost(p, n) == p.q < n \/ (p.q = n /\ p.r = 0)

RECURSIVE FloorSqrt(_, _, _)
\* one bisection step of FloorSqrt at mid
Bisect(n, lo, hi, mid) ==
    IF AtMost(WideMul(mid, mid), n) THEN FloorSqrt(n, mid, hi)
    ELSE FloorSqrt(n, lo, mid - 1)

\* the largest r in lo..hi with r * r <= n * One
FloorSqrt(n, lo, hi) ==
    IF lo >= hi THEN lo ELSE Bisect(n, lo, hi, (lo + hi + 1) \div 2)

RECURSIVE Root(_, _, _)
\* the largest r in lo..hi with r * r <= n
Root(n, lo, hi) ==
    IF lo >= hi THEN lo
    ELSE IF ((lo + hi + 1) \div 2) * ((lo + hi + 1) \div 2) <= n
    THEN Root(n, (lo + hi + 1) \div 2, hi)
    ELSE Root(n, lo, (lo + hi + 1) \div 2 - 1)

Min(x, y) == IF x < y THEN x ELSE y

Max(x, y) == IF x < y THEN y ELSE x

\* root * Half plus the first-order term of the square root of n * One, which
\* is at most Half \div (2 * root) + 1 above that square root and not below it
Estimate(n, root) == root * Half + ((n - root * root) * Half) \div (2 * root)

\* the largest r with r * r <= n * One, given the largest root with
\* root * root <= n
Refine(n, root) ==
    IF root = 0 THEN FloorSqrt(n, 0, Half - 1)
    ELSE FloorSqrt(n,
                   Max(root * Half, Estimate(n, root) - Half \div (2 * root) - 2),
                   Min(Estimate(n, root), root * Half + Half - 1))

\* math.sqrt: the representable value nearest to the square root of x, which
\* is half the floor of the square root of 4 * x, rounded up
Sqrt(x) == (Refine(4 * x, Root(4 * x, 0, 2 ^ 15)) + 1) \div 2

\* round(x, 3) of Python 2: nearest multiple of 0.001, ties away from zero
Round3(x) ==
    Sign(x) * Half * (IF 2 * (Abs(x) % Half) >= Half
                      THEN Abs(x) \div Half + 1
                      ELSE Abs(x) \div Half)

RECURSIVE SumFrom(_, _)
\* sum(s) continued from the partial sum acc
SumFrom(acc, s) == IF s = <<>> THEN acc ELSE SumFrom(DecAdd(acc, Head(s)), Tail(s))

\* sum(s): 0 + s[1] + s[2] + ..., added from left to right
Sum(s) == SumFrom(0, s)

\* zip(s, t): pairs up to the shorter of the two
Zip(s, t) == [i \in 1..Min(Len(s), Len(t)) |-> <<s[i], t[i]>>]

\* ------------------------------------------------------------------ Vector
\* __init__ without the `if not coordinates` test
Vector_unchecked(coordinates) ==
    Return([coordinates |-> [i \in 1..Len(coordinates) |-> coordinates[i]],
            dimension |-> Len(coordinates)])

\* __init__ with the empty sequence reported by the `except TypeError` clause
Vector_type_error(coordinates) ==
    IF coordinates = <<>>
    THEN Raise("TypeError", "The coordinates must be an iterable")
    ELSE Return([coordinates |-> [i \in 1..Len(coordinates) |-> coordinates[i]],
                 dimension |-> Len(coordinates)])

\* Vector.__init__
Vector(coordinates) ==
    IF coordinates = <<>>
    THEN Raise("ValueError", NON_EMPTY_MSG)
    ELSE Return([coordinates |-> [i \in 1..Len(coordinates) |-> coordinates[i]],
                 dimension |-> Len(coordinates)])

\* Vector.__eq__
Eq(self, v) == self.coordinates = v.coordinates

\* Vector.add
add(self, v) ==
    Vector([i \in 1..Len(Zip(self.coordinates, v.coordinates)) |->
               DecAdd(self.coordinates[i], v.coordinates[i])])

\* Vector.minus
minus(self, v) ==
    Vector([i \in 1..Len(Zip(self.coordinates, v.coordinates)) |->
               DecSub(self.coordinates[i], v.coordinates[i])])

\* Vector.scale
scale(self, k) ==
    Vector([i \in 1..Len(self.coordinates) |-> Mul(k, self.coordinates[i])])

\* Vector.magnitude
magnitude(self) ==
    Sqrt(Sum([i \in 1..Len(self.coordinates) |->
                 Mul(self.coordinates[i], self.coordinates[i])]))

\* normalize without its `except ZeroDivisionError` clause
normalize_try_uncaught(self, vector_magnitude) ==
    IF vector_magnitude = 0
    THEN Raise("ZeroDivisionError", "x / 0")
    ELSE scale(self, Div(One, vector_magnitude))

\* Vector.normalize, given vector_magnitude
normalize_try(self, vector_magnitude) ==
    IF vector_magnitude = 0
    THEN Raise("Exception", CANNOT_NORMALIZE_ZERO_VECTOR_MSG)
    ELSE scale(self, Div(One, vector_magnitude))

\* Vector.normalize
normalize(self) == normalize_try(self, magnitude(self))

\* dot_product without `round(..., 3)`
dot_product_unrounded(self, v) ==
    Return(Sum([i \in 1..Len(Zip(self.coordinates, v.coordinates)) |->
                   Mul(self.coordinates[i], v.coordinates[i])]))

\* Vector.dot_product
dot_product(self, v) ==
    Return(Round3(Sum([i \in 1..Len(Zip(self.coordinates, v.coordinates)) |->
                          Mul(self.coordinates[i], v.coordinates[i])])))

\* the default `tolerance=1e-10` of is_orthogonal and is_zero.  A tolerance is
\* written as the least whole number of units that is not below it: 1e-10
\* lies strictly between 0 and the smallest unit, so for a representable x,
\* x < 1e-10 exactly when x is less than one unit
DefaultTolerance == 1

\* the tolerances a caller passes: the default, and 0.001
Tolerances == {DefaultTolerance, Half}

\* x < tolerance
BelowTolerance(x, tolerance) == x < tolerance

\* math.acos: the angle is written as the record of its cosine; acos is
\* one-to-one on [-1, 1], acos(1.0) is 0.0 and acos(-1.0) is math.pi
Acos(x) ==
    IF x < 0 - One \/ x > One
    THEN Raise("ValueError", "math domain error")
    ELSE Return([cos |-> x, unit |-> "radians"])

\* math.degrees
Degrees(angle) == [cos |-> angle.cos, unit |-> "degrees"]

AngleIsZero(angle) == angle.cos = One

AngleIsPi(angle) == angle.unit = "radians" /\ angle.cos = 0 - One

\* Vector.get_degree, lines 98-101, given degree_in_radians
get_degree_of(degree_in_radians, in_degrees) ==
    IF IsRaise(degree_in_radians) THEN degree_in_radians
    ELSE IF in_degrees THEN Return(Degrees(degree_in_radians.val))
    ELSE degree_in_radians

\* Vector.get_degree, the body of `try`, given the two unit vectors
get_degree_try(normalize_x, normalize_y, in_degrees) ==
    IF IsRaise(normalize_x) THEN normalize_x
    ELSE IF IsRaise(normalize_y) THEN normalize_y
    ELSE get_degree_of(Acos(dot_product(normalize_x.val, normalize_y.val).val),
                       in_degrees)

\* get_degree with `raise e` for every exception
get_degree_reraise(self, v, in_degrees) ==
    get_degree_try(normalize(self), normalize(v), in_degrees)

\* Vector.get_degree
get_degree(self, v, in_degrees) ==
    Relabel(get_degree_try(normalize(self), normalize(v), in_degrees),
            CANNOT_NORMALIZE_ZERO_VECTOR_MSG, ANGLE_WITH_ZERO_VECTOR_MSG)

\* Vector.is_orthogonal
is_orthogonal(self, v, tolerance) ==
    Return(BelowTolerance(Abs(dot_product(self, v).val), tolerance))

\* Vector.is_zero
is_zero(self, tolerance) == Return(BelowTolerance(magnitude(self), tolerance))

\* lines 126-127 without the comparison with pi
is_parallel_of_zero_angle(degree) ==
    IF IsRaise(degree) THEN degree
    ELSE Return(AngleIsZero(degree.val))

\* Vector.is_parallel, lines 126-127, given the outcome of get_degree
is_parallel_of(degree) ==
    IF IsRaise(degree) THEN degree
    ELSE Return(AngleIsZero(degree.val) \/ AngleIsPi(degree.val))

\* is_parallel without the two is_zero operands
is_parallel_unguarded(self, v) == is_parallel_of(get_degree(self, v, FALSE))

\* is_parallel without the `v.is_zero()` operand
is_parallel_self_zero_only(self, v) ==
    IF is_zero(self, DefaultTolerance).val THEN Return(TRUE)
    ELSE is_parallel_of(get_degree(self, v, FALSE))

\* Vector.is_parallel: `or` evaluates its operands left to right and stops at
\* the first true one
is_parallel(self, v) ==
    IF is_zero(self, DefaultTolerance).val THEN Return(TRUE)
    ELSE IF is_zero(v, DefaultTolerance).val THEN Return(TRUE)
    ELSE is_parallel_of(get_degree(self, v, FALSE))

\* Vector.check_vector, lines 138-145, given p_true and o_true
check_vector_of(p_true, o_true) ==
    IF IsRaise(p_true) THEN p_true
    ELSE IF p_true.val /\ o_true.val THEN Return("both parallel and orthogonal!")
    ELSE IF p_true.val THEN Return("parallel!")
    ELSE IF o_true.val THEN Return("orthogonal!")
    ELSE Return("neither parallel nor orthogonal...")

\* Vector.check_vector
check_vector(self, v) ==
    check_vector_of(is_parallel(self, v), is_orthogonal(self, v, DefaultTolerance))

\* Vector.parallel_projection, the body of `try`, given the outcome of
\* basis.normalize()
parallel_projection_try(self, unit_vector) ==
    IF IsRaise(unit_vector) THEN unit_vector
    ELSE scale(unit_vector.val, dot_product(self, unit_vector.val).val)

\* Vector.parallel_projection
parallel_projection(self, basis) ==
    Relabel(parallel_projection_try(self, normalize(basis)),
            CANNOT_NORMALIZE_ZERO_VECTOR_MSG, NO_UNIQUE_PARALLEL_COMPONENT_MSG)

\* the body of `try` with the operands of minus exchanged
orthogonal_projection_try_reversed(self, parallel_vector) ==
    IF IsRaise(parallel_vector) THEN parallel_vector
    ELSE minus(parallel_vector.val, self)

\* Vector.orthogonal_projection, the body of `try`, given the outcome of
\* self.parallel_projection(basis)
orthogonal_projection_try(self, parallel_vector) ==
    IF IsRaise(parallel_vector) THEN parallel_vector
    ELSE minus(self, parallel_vector.val)

\* Vector.orthogonal_projection
orthogonal_projection(self, basis) ==
    Relabel(orthogonal_projection_try(self, parallel_projection(self, basis)),
            CANNOT_NORMALIZE_ZERO_VECTOR_MSG, NO_UNIQUE_ORTHOGONAL_COMPONENT_MSG)

\* the outcome of two calls made one after the other, and the calls started:
\* an exception of the first leaves before the second is started
InOrder(first, first_name, second, second_name) ==
    IF IsRaise(first)
    THEN [out |-> first, started |-> <<first_name>>]
    ELSE [out |-> second, started |-> <<first_name, second_name>>]

\* Vector.component_vectors, line 186, given the two projections
component_vectors_of(parallel, orthogonal) ==
    IF IsRaise(orthogonal) THEN orthogonal
    ELSE Return(<<parallel.val, orthogonal.val>>)

\* component_vectors with its two statements in the other order
component_vectors_orthogonal_first(self, basis) ==
    InOrder(orthogonal_projection(self, basis), "orthogonal_projection",
            component_vectors_of(parallel_projection(self, basis),
                                 orthogonal_projection(self, basis)),
            "parallel_projection")

\* Vector.component_vectors: the outcome, and the projections it started, in
\* the order it started them
component_vectors(self, basis) ==
    InOrder(parallel_projection(self, basis), "parallel_projection",
            component_vectors_of(parallel_projection(self, basis),
                                 orthogonal_projection(self, basis)),
            "orthogonal_projection")

\* the ValueError message of `x, y, z = coordinates` in Python 2 ("" if none)
UnpackError(coordinates) ==
    IF Len(coordinates) = 3 THEN ""
    ELSE IF Len(coordinates) > 3 THEN "too many values to unpack"
    ELSE IF Len(coordinates) = 1 THEN "need more than 1 value to unpack"
    ELSE IF Len(coordinates) = 2 THEN "need more than 2 values to unpack"
    ELSE "need more than 0 values to unpack"

\* truth value of a string
Truthy(s) == s # ""

\* the body of `try` with the sign of the second component lost
cross_product_try_unnegated(self, v) ==
    IF UnpackError(self.coordinates) # ""
    THEN Raise("ValueError", UnpackError(self.coordinates))
    ELSE IF UnpackError(v.coordinates) # ""
    THEN Raise("ValueError", UnpackError(v.coordinates))
    ELSE Vector(<<DecSub(Mul(self.coordinates[2], v.coordinates[3]),
                         Mul(v.coordinates[2], self.coordinates[3])),
                  DecSub(Mul(self.coordinates[1], v.coordinates[3]),
                         Mul(v.coordinates[1], self.coordinates[3])),
                  DecSub(Mul(self.coordinates[1], v.coordinates[2]),
                         Mul(v.coordinates[1], self.coordinates[2]))>>)

\* the body of `try` with a sum for the difference of the first component
cross_product_try_symmetric(self, v) ==
    IF UnpackError(self.coordinates) # ""
    THEN Raise("ValueError", UnpackError(self.coordinates))
    ELSE IF UnpackError(v.coordinates) # ""
    THEN Raise("ValueError", UnpackError(v.coordinates))
    ELSE Vector(<<DecAdd(Mul(self.coordinates[2], v.coordinates[3]),
                         Mul(v.coordinates[2], self.coordinates[3])),
                  DecNeg(DecSub(Mul(self.coordinates[1], v.coordinates[3]),
                                Mul(v.coordinates[1], self.coordinates[3]))),
                  DecSub(Mul(self.coordinates[1], v.coordinates[2]),
                         Mul(v.coordinates[1], self.coordinates[2]))>>)

\* Vector.cross_product, the body of `try` (lines 199-204): self is unpacked
\* first, then v
cross_product_try(self, v) ==
    IF UnpackError(self.coordinates) # ""
    THEN Raise("ValueError", UnpackError(self.coordinates))
    ELSE IF UnpackError(v.coordinates) # ""
    THEN Raise("ValueError", UnpackError(v.coordinates))
    ELSE LET x_1 == self.coordinates[1]
             y_1 == self.coordinates[2]
             z_1 == self.coordinates[3]
             x_2 == v.coordinates[1]
             y_2 == v.coordinates[2]
             z_2 == v.coordinates[3]
         IN  Vector(<<DecSub(Mul(y_1, z_2), Mul(y_2, z_1)),
                      DecNeg(DecSub(Mul(x_1, z_2), Mul(x_2, z_1))),
                      DecSub(Mul(x_1, y_2), Mul(x_2, y_1))>>)

\* the condition of the `elif` without its second operand
IsUnsupported_TooManyOnly(msg) == msg = "too many values to unpack"

\* the condition of the `elif` (lines 212-213)
IsUnsupported(msg) ==
    msg = "too many values to unpack" \/ Truthy("need more than 1 value to unpack")

RECURSIVE cross_product(_, _)
\* Vector.cross_product, the `except ValueError` clause (lines 206-216), given
\* the outcome of the body of `try`
cross_product_except(self, v, body) ==
    IF ~(IsRaise(body) /\ body.type = "ValueError") THEN body
    ELSE IF body.msg = "need more than 2 values to unpack"
    THEN cross_product(Vector(Append(self.coordinates, 0)).val,
                       Vector(Append(self.coordinates, 0)).val)
    ELSE IF IsUnsupported(body.msg)
    THEN Raise("Exception", ONLY_DEFINED_IN_TWO_THREE_DIMS_MSG)
    ELSE body

\* Vector.cross_product
cross_product(self, v) == cross_product_except(self, v, cross_product_try(self, v))

\* Vector.parallelogram_area, line 225, given the outcome of cross_product
parallelogram_area_of(cross) ==
    IF IsRaise(cross) THEN cross ELSE Return(magnitude(cross.val))

\* Vector.parallelogram_area
parallelogram_area(self, v) == parallelogram_area_of(cross_product(self, v))

\* Vector.triangle_area, line 233, given the outcome of parallelogram_area
triangle_area_of(area) ==
    IF IsRaise(area) THEN area ELSE Return(Div(area.val, 2 * One))

\* Vector.triangle_area
triangle_area(self, v) == triangle_area_of(parallelogram_area(self, v))

\* ------------------------------------------------------------- state space
Tuples(n) == [1..n -> Coords]

LongTuples(n) == {[i \in 1..n |-> x] : x \in Coords}

Vectors ==
    {Vector(t).val : t \in UNION {Tuples(n) : n \in 1..MaxDim}
                          \cup UNION {LongTuples(n) : n \in (MaxDim + 1)..MaxLongDim}}

\* the operands of a sequence of calls: 2-dimensional vectors
SeqVectors ==
    {Vector(t).val : t \in {<<0 - One, One \div 100>>, <<One \div 100, 0 - One>>, <<0, 0>>}}

\* the caller has constructed the two operands
Start(operands) ==
    /\ a \in operands
    /\ b \in operands
    /\ heap = <<a, b>>
    /\ at = <<1, 2>>
    /\ arg = 0
    /\ op = "none"
    /\ ret = Return("none")
    /\ calls = <<>>
    /\ pc = "ready"
    /\ stack = <<>>

Init == Start(Vectors)

InitSeq == Start(SeqVectors)

\* the methods that return `Vector(...)`
VectorMethods ==
    {"Vector", "add", "minus", "scale", "normalize", "parallel_projection",
     "orthogonal_projection", "cross_product"}

\* add, minus and scale writing their result into self and returning self
Store_in_place(objects, self_at, name, outcome) ==
    IF IsRaise(outcome) THEN objects
    ELSE IF name \in {"add", "minus", "scale"}
    THEN [objects EXCEPT ![self_at] = outcome.val]
    ELSE IF name \in VectorMethods THEN Append(objects, outcome.val)
    ELSE IF name = "component_vectors"
    THEN objects \o <<outcome.val[1], outcome.val[2]>>
    ELSE objects

\* the objects the caller holds after the call: a returned Vector is an
\* object constructed by the call (`return Vector(new_coordinates)`), and the
\* objects there were are as they were
Store(objects, self_at, name, outcome) ==
    IF IsRaise(outcome) THEN objects
    ELSE IF name \in VectorMethods THEN Append(objects, outcome.val)
    ELSE IF name = "component_vectors"
    THEN objects \o <<outcome.val[1], outcome.val[2]>>
    ELSE objects

Call(name, outcome) ==
    /\ pc = "ready"
    /\ pc' = "done"
    /\ op' = name
    /\ ret' = outcome
    /\ heap' = Store(heap, at[1], name, outcome)
    /\ UNCHANGED <<a, b, at, stack>>

\* Vector(coordinates), of a sequence that may be empty
Construct ==
    /\ pc = "ready"
    /\ \E coordinates \in {<<>>, a.coordinates} :
           /\ Call("Vector", Vector(coordinates))
           /\ arg' = coordinates
    /\ UNCHANGED calls

Add == Call("add", add(a, b)) /\ UNCHANGED <<arg, calls>>

Minus == Call("minus", minus(a, b)) /\ UNCHANGED <<arg, calls>>

Scale == \E k \in Scalars : Call("scale", scale(a, k)) /\ arg' = k /\ UNCHANGED calls

Magnitude == Call("magnitude", Return(magnitude(a))) /\ UNCHANGED <<arg, calls>>

Normalize == Call("normalize", normalize(a)) /\ UNCHANGED <<arg, calls>>

DotProduct == Call("dot_product", dot_product(a, b)) /\ UNCHANGED <<arg, calls>>

GetDegree ==
    \E in_degrees \in BOOLEAN :
        /\ Call("get_degree", get_degree(a, b, in_degrees))
        /\ arg' = IF in_degrees THEN 1 ELSE 0
        /\ UNCHANGED calls

IsOrthogonal ==
    \E tolerance \in Tolerances :
        /\ Call("is_orthogonal", is_orthogonal(a, b, tolerance))
        /\ arg' = tolerance
        /\ UNCHANGED calls

IsParallel == Call("is_parallel", is_parallel(a, b)) /\ UNCHANGED <<arg, calls>>

IsZero ==
    \E tolerance \in Tolerances :
        /\ Call("is_zero", is_zero(a, tolerance))
        /\ arg' = tolerance
        /\ UNCHANGED calls

CheckVector == Call("check_vector", check_vector(a, b)) /\ UNCHANGED <<arg, calls>>

ParallelProjection ==
    /\ Call("parallel_projection", parallel_projection(a, b))
    /\ calls' = <<"parallel_projection">>
    /\ UNCHANGED arg

OrthogonalProjection ==
    /\ Call("orthogonal_projection", orthogonal_projection(a, b))
    /\ calls' = <<"orthogonal_projection">>
    /\ UNCHANGED arg

ComponentVectors ==
    /\ pc = "ready"
    /\ \E r \in {component_vectors(a, b)} :
           /\ Call("component_vectors", r.out)
           /\ calls' = r.started
    /\ UNCHANGED arg

CrossProduct == Call("cross_product", cross_product(a, b)) /\ UNCHANGED <<arg, calls>>

ParallelogramArea ==
    Call("parallelogram_area", parallelogram_area(a, b)) /\ UNCHANGED <<arg, calls>>

TriangleArea == Call("triangle_area", triangle_area(a, b)) /\ UNCHANGED <<arg, calls>>

Next ==
    \/ Construct
    \/ Add \/ Minus \/ Scale \/ Magnitude \/ Normalize \/ DotProduct
    \/ GetDegree \/ IsOrthogonal \/ IsParallel \/ IsZero \/ CheckVector
    \/ ParallelProjection \/ OrthogonalProjection \/ ComponentVectors
    \/ CrossProduct \/ ParallelogramArea \/ TriangleArea

Spec == Init /\ [][Next]_vars

\* the next call of a sequence: the caller makes it on two of the objects it
\* holds, the newest of them as self or as v
Then ==
    /\ pc = "done"
    /\ Len(heap) < MaxObjects
    /\ \E i \in 1..Len(heap), j \in 1..Len(heap) :
           /\ i = Len(heap) \/ j = Len(heap)
           /\ at' = <<i, j>>
           /\ a' = heap[i]
           /\ b' = heap[j]
    /\ pc' = "ready"
    /\ op' = "none"
    /\ ret' = Return("none")
    /\ arg' = 0
    /\ calls' = <<>>
    /\ UNCHANGED <<heap, stack>>

NextSeq == Next \/ Then

SpecSeq == InitSeq /\ [][NextSeq]_vars

\* ------------------------------------------- cross_product, step by step
\* no outcome yet
Pending == [kind |-> "pending", type |-> "", msg |-> "", val |-> "none"]

\* a call of cross_product(self, v) that has just been entered: `line` is the
\* statement the frame is at ("try" lines 199-200, "list" lines 201-204,
\* "except" the handler with the caught error in `out`, "call" line 211
\* waiting for the call it made, "exit" leaving with the outcome `out`)
Frame(self, v) == [self |-> self, v |-> v, line |-> "try", out |-> Pending]

\* the frame after an outcome of the body of `try` (lines 198-206): a
\* ValueError is caught, anything else leaves the method
AfterTry(frame, body) ==
    IF IsRaise(body) /\ body.type = "ValueError"
    THEN [frame EXCEPT !.line = "except", !.out = body]
    ELSE [frame EXCEPT !.line = "exit", !.out = body]

\* the error of lines 199-200 ("" if none)
UnpackErrors(self, v) ==
    IF UnpackError(self.coordinates) # ""
    THEN UnpackError(self.coordinates)
    ELSE UnpackError(v.coordinates)

\* the frame after lines 199-200, given their error
AfterUnpack(frame, msg) ==
    IF msg # ""
    THEN AfterTry(frame, Raise("ValueError", msg))
    ELSE [frame EXCEPT !.line = "list"]

\* the products of lines 201-203, in the order they are computed
Products(self, v) ==
    <<Mul(self.coordinates[2], v.coordinates[3]),
      Mul(v.coordinates[2], self.coordinates[3]),
      Mul(self.coordinates[1], v.coordinates[3]),
      Mul(v.coordinates[1], self.coordinates[3]),
      Mul(self.coordinates[1], v.coordinates[2]),
      Mul(v.coordinates[1], self.coordinates[2])>>

\* the operand built without the added coordinate
Promoted_unpadded(coordinates) == Vector(coordinates)

\* `Vector(self.coordinates + ('0',))` (lines 209 and 210)
Promoted(coordinates) == Vector(Append(coordinates, 0))

\* the frame after lines 212-216: the handler raises
AfterRaise(frame) ==
    [frame EXCEPT !.line = "exit",
                  !.out = IF IsUnsupported(frame.out.msg)
                          THEN Raise("Exception", ONLY_DEFINED_IN_TWO_THREE_DIMS_MSG)
                          ELSE frame.out]

\* the newest frame, and the stack with another frame in its place
Top == stack[Len(stack)]

SetTop(frames, frame) == [frames EXCEPT ![Len(frames)] = frame]

\* the caller calls a.cross_product(b)
CrossCall ==
    /\ pc = "ready"
    /\ pc' = "running"
    /\ ret' = Pending
    /\ stack' = <<Frame(a, b)>>
    /\ UNCHANGED <<a, b, arg, op, calls, heap, at>>

\* lines 199-200: self is unpacked into three names, then v
CrossUnpack ==
    /\ pc = "running"
    /\ Top.line = "try"
    /\ stack' = SetTop(stack, AfterUnpack(Top, UnpackErrors(Top.self, Top.v)))
    /\ UNCHANGED <<a, b, arg, op, ret, calls, pc, heap, at>>

\* lines 201-204: the products, then their differences, then the sign of the
\* second difference, then the Vector of the list
CrossList ==
    /\ pc = "running"
    /\ Top.line = "list"
    /\ \E products \in {Products(Top.self, Top.v)} :
         \E differences \in {<<DecSub(products[1], products[2]),
                                DecSub(products[3], products[4]),
                                DecSub(products[5], products[6])>>} :
           \E new_coordinates \in {<<differences[1], DecNeg(differences[2]),
                                     differences[3]>>} :
               stack' = SetTop(stack, AfterTry(Top, Vector(new_coordinates)))
    /\ UNCHANGED <<a, b, arg, op, ret, calls, pc, heap, at>>

\* lines 208-211: both operands of the new call are built from self, and the
\* frame waits at line 211 for the call to come back
CrossPromote ==
    /\ pc = "running"
    /\ Top.line = "except"
    /\ Top.out.msg = "need more than 2 values to unpack"
    /\ Len(stack) < MaxDepth
    /\ stack' = Append(SetTop(stack, [Top EXCEPT !.line = "call"]),
                       Frame(Promoted(Top.self.coordinates).val,
                             Promoted(Top.self.coordinates).val))
    /\ calls' = Append(calls, "cross_product")
    /\ UNCHANGED <<a, b, arg, op, ret, pc, heap, at>>

\* lines 212-216
CrossRaise ==
    /\ pc = "running"
    /\ Top.line = "except"
    /\ Top.out.msg # "need more than 2 values to unpack"
    /\ stack' = SetTop(stack, AfterRaise(Top))
    /\ UNCHANGED <<a, b, arg, op, ret, calls, pc, heap, at>>

\* a call made at line 211 comes back: `return` hands its value on, and what it
\* raised is raised from inside the handler, which no handler of this method
\* catches
CrossReturn ==
    /\ pc = "running"
    /\ Top.line = "exit"
    /\ Len(stack) > 1
    /\ stack' = SetTop(SubSeq(stack, 1, Len(stack) - 1),
                       [stack[Len(stack) - 1] EXCEPT !.line = "exit", !.out = Top.out])
    /\ UNCHANGED <<a, b, arg, op, ret, calls, pc, heap, at>>

\* the first call comes back to the caller
CrossDone ==
    /\ pc = "running"
    /\ Top.line = "exit"
    /\ Len(stack) = 1
    /\ pc' = "done"
    /\ op' = "cross_product"
    /\ ret' = Top.out
    /\ stack' = <<>>
    /\ heap' = Store(heap, at[1], "cross_product", Top.out)
    /\ UNCHANGED <<a, b, arg, calls, at>>

NextCross ==
    \/ CrossCall
    \/ CrossUnpack
    \/ CrossList
    \/ CrossPromote
    \/ CrossRaise
    \/ CrossReturn
    \/ CrossDone

\* the interpreter goes on to the next statement while there is one
SpecCross == Init /\ [][NextCross]_vars /\ WF_vars(NextCross)

\* ------------------------------------------------------------------ claims
Done(name) == pc = "done" /\ op = name

ReturnsVector(o, d) ==
    /\ o.kind = "return"
    /\ o.val.dimension = d
    /\ Len(o.val.coordinates) = d

AllZero(v) == \A i \in 1..Len(v.coordinates) : v.coordinates[i] = 0

UnsupportedDimension == Raise("Exception", ONLY_DEFINED_IN_TWO_THREE_DIMS_MSG)

\* C1: add(a, b) and minus(a, b) on vectors of different dimensions fail and
\* return no Vector; they return a Vector, of the operands' dimension, only
\* when a.dimension = b.dimension.
C1_AddMinusDimensionMismatch ==
    (Done("add") \/ Done("minus")) =>
        IF a.dimension # b.dimension
        THEN IsRaise(ret)
        ELSE ReturnsVector(ret, a.dimension)

\* C2: dot_product(a, b) on vectors of different dimensions fails instead of
\* returning a number.
C2_DotProductDimensionMismatch ==
    (Done("dot_product") /\ a.dimension # b.dimension) => IsRaise(ret)

\* C3: for 2-dimensional a = (a1, a2) and b = (b1, b2), cross_product(a, b)
\* returns the 3-dimensional vector (0, 0, a1*b2 - b1*a2).
C3_CrossProduct2D ==
    (Done("cross_product") /\ a.dimension = 2 /\ b.dimension = 2) =>
        /\ ReturnsVector(ret, 3)
        /\ ret.val.coordinates =
               <<0, 0, DecSub(Mul(a.coordinates[1], b.coordinates[2]),
                              Mul(b.coordinates[1], a.coordinates[2]))>>

\* C4: cross_product(a, b) on vectors of different dimensions fails with the
\* "Cross-product only applicable to 2D or 3D vectors" error and returns no
\* Vector.
C4_CrossProductMixedDimensions ==
    (Done("cross_product") /\ a.dimension # b.dimension) =>
        ret = UnsupportedDimension

\* C5: cross_product(a, b) on vectors of the same dimension d, d = 1 or
\* d >= 4, fails with the "Cross-product only applicable to 2D or 3D vectors"
\* error.
C5_CrossProductUnsupportedDimension ==
    (/\ Done("cross_product")
     /\ a.dimension = b.dimension
     /\ (a.dimension = 1 \/ a.dimension >= 4)) =>
        ret = UnsupportedDimension

C5_Witness ==
    /\ Done("cross_product")
    /\ a.dimension = 4
    /\ b.dimension = 4
    /\ ~AllZero(a)
    /\ ret = UnsupportedDimension

\* the spec's example cross([8.462, 7.893, -8.187], [6.984, -5.975, 4.778]),
\* which is [-11.205, -97.609, -105.685] to three decimals: the result agrees
\* with it to the third decimal, or to the last digit the context keeps
CrossExample ==
    LET v == Vector(<<8462000, 7893000, 0 - 8187000>>).val
        w == Vector(<<6984000, 0 - 5975000, 4778000>>).val
        r == cross_product(v, w)
        e == <<0 - 11205000, 0 - 97609000, 0 - 105685000>>
    IN  /\ ReturnsVector(r, 3)
        /\ \A i \in 1..3 :
               \/ Abs(r.val.coordinates[i] - e[i]) <= Half
               \/ Abs(r.val.coordinates[i] - e[i]) <= Quantum(Abs(e[i]), 1)

\* C6: for 3-dimensional a = (x1, y1, z1) and b = (x2, y2, z2),
\* cross_product(a, b) returns the 3-dimensional vector
\* (y1*z2 - y2*z1, -(x1*z2 - x2*z1), x1*y2 - x2*y1); the spec's example is an
\* instance.
C6_CrossProduct3D ==
    /\ (Done("cross_product") /\ a.dimension = 3 /\ b.dimension = 3) =>
           /\ ReturnsVector(ret, 3)
           /\ ret.val.coordinates[1] =
                  DecSub(Mul(a.coordinates[2], b.coordinates[3]),
                         Mul(b.coordinates[2], a.coordinates[3]))
           /\ ret.val.coordinates[2] =
                  DecNeg(DecSub(Mul(a.coordinates[1], b.coordinates[3]),
                                Mul(b.coordinates[1], a.coordinates[3])))
           /\ ret.val.coordinates[3] =
                  DecSub(Mul(a.coordinates[1], b.coordinates[2]),
                         Mul(b.coordinates[1], a.coordinates[2]))
    /\ Done("cross_product") => CrossExample

C6_Witness ==
    /\ Done("cross_product")
    /\ a.dimension = 3
    /\ b.dimension = 3
    /\ ReturnsVector(ret, 3)
    /\ \A i \in 1..3 : ret.val.coordinates[i] # 0

\* C7: orthogonal_projection(v, basis) with a basis of magnitude zero fails
\* with the "No unique orthogonal component exists!" error.
C7_OrthogonalProjectionZeroBasis ==
    (Done("orthogonal_projection") /\ magnitude(b) = 0) =>
        ret = Raise("Exception", NO_UNIQUE_ORTHOGONAL_COMPONENT_MSG)

\* C8: component_vectors(v, basis) with a basis of magnitude zero fails with
\* the "No unique parallel component exists!" error, raised by the parallel
\* projection before any orthogonal projection is started.
C8_ComponentVectorsParallelFirst ==
    (Done("component_vectors") /\ magnitude(b) = 0) =>
        /\ ret = Raise("Exception", NO_UNIQUE_PARALLEL_COMPONENT_MSG)
        /\ calls = <<"parallel_projection">>

C8_Witness ==
    /\ Done("component_vectors")
    /\ magnitude(b) = 0
    /\ magnitude(a) # 0
    /\ a.dimension = b.dimension
    /\ IsRaise(ret)

\* C9: check_vector(a, b) on vectors of equal dimension returns "both
\* parallel and orthogonal!" only when a or b is a zero vector (is_zero).
C9_BothOnlyWhenZero ==
    (/\ Done("check_vector")
     /\ a.dimension = b.dimension
     /\ ret = Return("both parallel and orthogonal!")) =>
        (is_zero(a, DefaultTolerance).val \/ is_zero(b, DefaultTolerance).val)

\* C10: for every vector v and every all-zero vector z of the same dimension,
\* check_vector(v, z) and check_vector(z, v) return "both parallel and
\* orthogonal!" and do not raise.
C10_ZeroVectorIsBoth ==
    (/\ Done("check_vector")
     /\ a.dimension = b.dimension
     /\ (AllZero(a) \/ AllZero(b))) =>
        ret = Return("both parallel and orthogonal!")

C10_Witness ==
    /\ Done("check_vector")
    /\ a.dimension = 2
    /\ b.dimension = 2
    /\ ~AllZero(a)
    /\ AllZero(b)
    /\ ret = Return("both parallel and orthogonal!")

\* C11: every Vector the caller holds after any sequence of calls, whether it
\* came from the constructor or was returned by add, minus, scale, normalize,
\* a projection, component_vectors or cross_product, has
\* dimension = Len(coordinates) and dimension >= 1.
C11_DimensionIsLength ==
    \A i \in 1..Len(heap) :
        /\ heap[i].dimension = Len(heap[i].coordinates)
        /\ heap[i].dimension >= 1

\* a Vector returned by a call made on a returned Vector of another dimension
C11_Witness ==
    /\ pc = "done"
    /\ op \in VectorMethods
    /\ ~IsRaise(ret)
    /\ at[1] > 2
    /\ a.dimension # b.dimension
    /\ heap[Len(heap)] = ret.val

\* C12: Vector(coordinates) of the empty sequence raises ValueError("The
\* coordinates must be non-empty") and the caller holds no new Vector.
C12_EmptyIsRejected ==
    (Done("Vector") /\ arg = <<>>) =>
        /\ ret = Raise("ValueError", NON_EMPTY_MSG)
        /\ heap = <<a, b>>

C12_Witness ==
    /\ Done("Vector")
    /\ arg = <<>>
    /\ IsRaise(ret)
    /\ Len(heap) = 2

\* the objects there were before the step are there after it, unchanged
Preserved == \A i \in 1..Len(heap) : i <= Len(heap') /\ heap'[i] = heap[i]

\* the number of Vectors the call returned
Returned ==
    IF IsRaise(ret') THEN 0
    ELSE IF op' \in VectorMethods THEN 1
    ELSE IF op' = "component_vectors" THEN 2
    ELSE 0

\* C13: no call, whether it returns or raises, changes the coordinates or the
\* dimension of a Vector there was before it, and each Vector it returns is
\* an object at an address no object had before.
C13_OperandsUnchanged ==
    [][/\ Preserved
       /\ pc = "ready" =>
              /\ Len(heap') = Len(heap) + Returned
              /\ Returned = 1 => heap'[Len(heap')] = ret'.val
              /\ Returned = 2 => <<heap'[Len(heap) + 1], heap'[Len(heap) + 2]>> = ret'.val
              /\ heap'[at[1]] = a /\ heap'[at[2]] = b]_vars

\* a call made on a returned Vector has returned another Vector, and a call
\* made on the objects of an earlier call has raised
C13_Witness ==
    /\ pc = "done"
    /\ at[1] > 2
    /\ \/ op = "scale" /\ ~IsRaise(ret) /\ ret.val # a /\ heap[at[1]] = a
       \/ op = "normalize" /\ IsRaise(ret) /\ heap[at[1]] = a

\* C14: normalize(v) raises "Cannot normalize the zero vector" exactly when
\* magnitude(v) = 0, and otherwise returns scale(v, 1 / magnitude(v)).
C14_NormalizeZeroMagnitude ==
    Done("normalize") =>
        IF magnitude(a) = 0
        THEN ret = Raise("Exception", CANNOT_NORMALIZE_ZERO_VECTOR_MSG)
        ELSE ~IsRaise(ret) /\ ret = scale(a, Div(One, magnitude(a)))

C14_Witness ==
    /\ Done("normalize")
    /\ a.dimension = 3
    /\ magnitude(a) = 0
    /\ ret = Raise("Exception", CANNOT_NORMALIZE_ZERO_VECTOR_MSG)

\* C15: get_degree(a, b) raises "Cannot compute an angle with a zero vector"
\* whenever a or b has magnitude zero, and this outcome differs from the one
\* normalize has on that zero vector.
C15_AngleWithZeroVector ==
    (Done("get_degree") /\ (magnitude(a) = 0 \/ magnitude(b) = 0)) =>
        /\ ret = Raise("Exception", ANGLE_WITH_ZERO_VECTOR_MSG)
        /\ \A z \in {a, b} : magnitude(z) = 0 => ret # normalize(z)

C15_Witness ==
    /\ Done("get_degree")
    /\ magnitude(a) # 0
    /\ magnitude(b) = 0
    /\ a.dimension = b.dimension
    /\ ret = Raise("Exception", ANGLE_WITH_ZERO_VECTOR_MSG)

\* the projections are defined and of v's dimension
Projectable == a.dimension = b.dimension /\ magnitude(b) # 0

\* C16 as stated: for every v and every basis of the same dimension with
\* non-zero magnitude, add(parallel_projection(v, basis),
\* orthogonal_projection(v, basis)) == v, and the two members of
\* component_vectors(v, basis) sum to v.
C16_ProjectionRoundTripExact ==
    /\ (Done("orthogonal_projection") /\ Projectable) =>
           Eq(add(parallel_projection(a, b).val, ret.val).val, a)
    /\ (Done("component_vectors") /\ Projectable) =>
           Eq(add(ret.val[1], ret.val[2]).val, a)

\* the unit of the last digit of x where the context rounds, 0 where x is
\* kept to the smallest unit
Slack(x) == IF Abs(x) < Digits THEN 0 ELSE Quantum(Abs(x), 1)

\* sum is v up to the rounding of v - parallel and of parallel + orthogonal:
\* half a unit of the last digit of each
WithinRounding(sum, v, orthogonal) ==
    /\ sum.dimension = v.dimension
    /\ \A i \in 1..Len(v.coordinates) :
           2 * Abs(sum.coordinates[i] - v.coordinates[i])
               <= Slack(orthogonal.coordinates[i]) + Slack(sum.coordinates[i])

\* C16, amended: for every v and every basis of the same dimension with
\* non-zero magnitude, the sum of the parallel and the orthogonal projection,
\* and the sum of the two members of component_vectors(v, basis), equal v
\* within the rounding of the decimal context (half a unit of the last digit
\* for each of the two roundings), not always exactly.
C16_ProjectionRoundTripRounded ==
    /\ (Done("orthogonal_projection") /\ Projectable) =>
           WithinRounding(add(parallel_projection(a, b).val, ret.val).val, a, ret.val)
    /\ (Done("component_vectors") /\ Projectable) =>
           WithinRounding(add(ret.val[1], ret.val[2]).val, a, ret.val[2])

\* the two members of component_vectors(v, basis) do not sum to v exactly
C16_Witness ==
    /\ Done("component_vectors")
    /\ Projectable
    /\ ~Eq(add(ret.val[1], ret.val[2]).val, a)
    /\ WithinRounding(add(ret.val[1], ret.val[2]).val, a, ret.val[2])

\* C17: for a and b both 2-dimensional or both 3-dimensional,
\* cross_product(a, b) == scale(cross_product(b, a), -1).
C17_CrossProductAntiCommutes ==
    (/\ Done("cross_product")
     /\ a.dimension = b.dimension
     /\ a.dimension \in {2, 3}) =>
        /\ ~IsRaise(ret)
        /\ Eq(ret.val, scale(cross_product(b, a).val, 0 - One).val)

\* a cross product that differs from the one with the operands exchanged
C17_Witness ==
    /\ Done("cross_product")
    /\ a.dimension = 3
    /\ b.dimension = 3
    /\ ~IsRaise(ret)
    /\ ~Eq(ret.val, cross_product(b, a).val)
    /\ Eq(ret.val, scale(cross_product(b, a).val, 0 - One).val)

\* the sum of the element-wise products of s and t
SumOfProducts(s, t) == Sum([i \in 1..Len(Zip(s, t)) |-> Mul(s[i], t[i])])

\* C18: is_orthogonal(a, b, tolerance) is true exactly when the absolute
\* value of the sum of element-wise products, rounded to 3 decimal places, is
\* strictly less than tolerance; the rounding comes before the comparison.
C18_OrthogonalAfterRounding ==
    Done("is_orthogonal") =>
        ret = Return(Abs(Round3(SumOfProducts(a.coordinates, b.coordinates))) < arg)

\* a sum of products that is not below the default tolerance, rounded to one
\* that is
C18_Witness ==
    /\ Done("is_orthogonal")
    /\ arg = DefaultTolerance
    /\ a.dimension = b.dimension
    /\ ~(Abs(SumOfProducts(a.coordinates, b.coordinates)) < arg)
    /\ ret = Return(TRUE)

\* the sum of the element-wise products of the two normalized vectors
Cosine == SumOfProducts(normalize(a).val.coordinates, normalize(b).val.coordinates)

\* C19: is_parallel(a, b) is true if and only if a is_zero, or b is_zero, or
\* the dot product of the two normalized vectors, rounded to 3 decimal
\* places, is exactly 1 or exactly -1 (the angle is exactly 0 or exactly pi).
C19_ParallelIffExactAngle ==
    Done("is_parallel") =>
        ret = Return(\/ is_zero(a, DefaultTolerance).val
                     \/ is_zero(b, DefaultTolerance).val
                     \/ Round3(Cosine) = One
                     \/ Round3(Cosine) = 0 - One)

\* two non-zero vectors whose cosine is not -1 and is rounded to -1
C19_Witness ==
    /\ Done("is_parallel")
    /\ ~is_zero(a, DefaultTolerance).val
    /\ ~is_zero(b, DefaultTolerance).val
    /\ a.dimension = b.dimension
    /\ Cosine # 0 - One
    /\ Round3(Cosine) = 0 - One
    /\ ret = Return(TRUE)

\* C20: for two vectors of equal dimension is_parallel(a, b) and
\* check_vector(a, b) return a result and do not raise, and neither of them
\* ever raises "Cannot compute an angle with a zero vector": the is_zero tests
\* come before get_degree.
C20_ParallelNeverRaises ==
    (Done("is_parallel") \/ Done("check_vector")) =>
        /\ a.dimension = b.dimension => ~IsRaise(ret)
        /\ ret # Raise("Exception", ANGLE_WITH_ZERO_VECTOR_MSG)

\* is_parallel has returned on operands on which get_degree raises
C20_Witness ==
    /\ Done("is_parallel")
    /\ a.dimension = 3
    /\ b.dimension = 3
    /\ get_degree(a, b, FALSE) = Raise("Exception", ANGLE_WITH_ZERO_VECTOR_MSG)
    /\ ret = Return(TRUE)

\* the first `try` of cross_product(self, v) ends in the error of unpacking
\* two values: self has two coordinates, or self has three and v has two
Promotes(self, v) ==
    \/ self.dimension = 2
    \/ self.dimension = 3 /\ v.dimension = 2

\* while cross_product runs: at most one call of cross_product by itself has
\* been made, the frame that made it waits at line 211 and the frame it made
\* is not at line 211; when it is over: the call was made exactly once if the
\* first `try` ended in the error of unpacking two values and not at all
\* otherwise, and the outcome is a 3-dimensional Vector or an error, the one
\* that cross_product(a, b) taken as a whole gives
OnePromotion ==
    /\ Len(stack) <= 2
    /\ Len(calls) <= 1
    /\ Len(stack) = 2 => stack[1].line = "call" /\ stack[2].line # "call"
    /\ Done("cross_product") =>
           /\ calls = IF Promotes(a, b) THEN <<"cross_product">> ELSE <<>>
           /\ IsRaise(ret) \/ ReturnsVector(ret, 3)
           /\ ret = cross_product(a, b)

\* C21: cross_product(a, b) terminates for every pair of vectors of any
\* dimensions: the promotion of 2-dimensional operands makes exactly one
\* call of cross_product by itself, and that call returns a Vector or raises
\* and never promotes again.
C21_CrossProductTerminates == []OnePromotion /\ <>Done("cross_product")

C21_Witness ==
    /\ Done("cross_product")
    /\ a.dimension = 2
    /\ calls = <<"cross_product">>
    /\ ReturnsVector(ret, 3)

====
